---- MODULE Spec2Model ----
(***************************************************************************)
(* Secret-version retention tooling of auth-service-secret-automation:     *)
(*   - cleanupSecretVersions.js : parseTimestampLabel, isTimestampLabel,   *)
(*     identifyVersionsToCleanup, removeLabelFromVersion, cleanupVersions, *)
(*     main                                                                *)
(*   - secretManager.js : generateTimestampLabel,                          *)
(*     labelPreviousVersionWithTimestamp, getCurrentSecretValues,          *)
(*     updateSecretValue                                                   *)
(* A staging label is a sequence of one-character strings, so that the     *)
(* regular expression and the parseInt calls of the source are computed.   *)
(* A JavaScript Date is its time value in whole seconds on the local       *)
(* timeline (no daylight-saving shift).                                    *)
(***************************************************************************)
EXTENDS Integers, Sequences, FiniteSets, TLC

VARIABLES
    store,      \* VersionIdsToStages held by the secret store: sequence of
                \* [versionId, labels], in the order the store lists them
    now,        \* wall clock, seconds
    versions,   \* the snapshot of VersionIdsToStages a cleanup works on
    phase,      \* planner harness: "input", "planned", "applied", "replanned"
    policy,     \* [keepCount, keepDays, strict] of the last planning call
    plan,       \* result of the last identifyVersionsToCleanup call
    prevPlan,   \* result of the planning call before it
    secretStrings,  \* SecretString of each version, indexed by versionId
    upd,        \* the updateSecretValue calls: pc, arguments, locals
    cli,        \* the cleanup command: pc, options, loop index, exit code
    calls       \* the label-removal calls sent to the store, with their outcome

planVars == <<versions, phase, policy, plan, prevPlan>>

runVars == <<secretStrings, upd, cli, calls>>

vars == <<store, now, versions, phase, policy, plan, prevPlan,
          secretStrings, upd, cli, calls>>

----------------------------------------------------------------------------
(* JavaScript numbers as produced by parseInt: an integer or NaN.          *)

Num(n) == [nan |-> FALSE, val |-> n]

NaN == [nan |-> TRUE, val |-> 0]

\* ToIntegerOrInfinity: NaN becomes 0
ToInteger(x) == IF x.nan THEN 0 ELSE x.val

\* x > 0 on JavaScript numbers: every comparison with NaN is false
GreaterThanZero(x) == (~x.nan) /\ x.val > 0

Min(a, b) == IF a < b THEN a ELSE b

Max(a, b) == IF a > b THEN a ELSE b

\* Array.prototype.slice(start, end) on a sequence (0-based, end exclusive)
SliceInt(seq, start, end) ==
    LET len  == Len(seq)
        from == IF start < 0 THEN Max(len + start, 0) ELSE Min(start, len)
        to   == IF end < 0 THEN Max(len + end, 0) ELSE Min(end, len)
    IN  IF to > from THEN SubSeq(seq, from + 1, to) ELSE <<>>

\* array.slice(0, n)
SliceTo(seq, n) == SliceInt(seq, 0, ToInteger(n))

\* array.slice(-n): the last n entries, not the entries after the first n
SliceFrom_FromEnd(seq, n) == SliceInt(seq, 0 - ToInteger(n), Len(seq))

\* array.slice(n - 1): the split taken one place too early
SliceFrom_OneEarly(seq, n) == SliceInt(seq, ToInteger(n) - 1, Len(seq))

\* array.slice(n + 1): one entry more than keepCount escapes the cleanup
SliceFrom_OneLate(seq, n) == SliceInt(seq, ToInteger(n) + 1, Len(seq))

\* array.slice(n)
SliceFrom(seq, n) == SliceInt(seq, ToInteger(n), Len(seq))

\* array.includes(x)
Includes(seq, x) == \E i \in 1..Len(seq) : seq[i] = x

Range(seq) == {seq[i] : i \in 1..Len(seq)}

----------------------------------------------------------------------------
(* Labels                                                                  *)

AWSCURRENT == <<"A","W","S","C","U","R","R","E","N","T">>

AWSPREVIOUS == <<"A","W","S","P","R","E","V","I","O","U","S">>

AWS_REQUIRED_LABELS == <<AWSCURRENT, AWSPREVIOUS>>

DigitChars == <<"0","1","2","3","4","5","6","7","8","9">>

IsDigit(c) == \E i \in 1..10 : DigitChars[i] = c

DigitVal(c) == (CHOOSE i \in 1..10 : DigitChars[i] = c) - 1

\* parseInt of a string of decimal digits
RECURSIVE ParseDigits(_)
ParseDigits(s) ==
    IF s = <<>> THEN 0
    ELSE 10 * ParseDigits(SubSeq(s, 1, Len(s) - 1)) + DigitVal(s[Len(s)])

\* /^\d{8}_\d{6}$/.test(label)
isTimestampLabel(label) ==
    /\ Len(label) = 15
    /\ \A i \in 1..8 : IsDigit(label[i])
    /\ label[9] = "_"
    /\ \A i \in 10..15 : IsDigit(label[i])

\* label.match(/^(\d{8})_(\d{6})$/) succeeds
MatchesTimestamp(label) ==
    /\ Len(label) = 15
    /\ \A i \in (1..8) \cup (10..15) : IsDigit(label[i])
    /\ label[9] = "_"

----------------------------------------------------------------------------
(* Date arithmetic of ECMAScript (Day Number, MakeDay, MakeTime), seconds  *)

SecondsPerDay == 86400

IsLeap(y) == (y % 4 = 0) /\ ((y % 100 # 0) \/ (y % 400 = 0))

DayFromYear(y) ==
    365 * (y - 1970) + ((y - 1969) \div 4) - ((y - 1901) \div 100)
        + ((y - 1601) \div 400)

\* days before the first of month m (0-based) within a year
DaysBeforeMonth(y, m) ==
    LET cum == <<0, 31, 59, 90, 120, 151, 181, 212, 243, 273, 304, 334>>
    IN  cum[m + 1] + (IF m >= 2 /\ IsLeap(y) THEN 1 ELSE 0)

\* new Date(year, month, day, hour, minute, second): out-of-range fields carry
\* over, and a year of 0..99 means 1900 + year
MakeDate(year, month, day, hour, minute, second) ==
    LET yr == IF year >= 0 /\ year <= 99 THEN 1900 + year ELSE year
        ym == yr + (month \div 12)
        mn == month % 12
        dayNo == DayFromYear(ym) + DaysBeforeMonth(ym, mn) + day - 1
    IN  dayNo * SecondsPerDay + hour * 3600 + minute * 60 + second

Null == -2000000000

parseTimestampLabel(label) ==
    IF MatchesTimestamp(label)
    THEN MakeDate(ParseDigits(SubSeq(label, 1, 4)),
                  ParseDigits(SubSeq(label, 5, 6)) - 1,
                  ParseDigits(SubSeq(label, 7, 8)),
                  ParseDigits(SubSeq(label, 10, 11)),
                  ParseDigits(SubSeq(label, 12, 13)),
                  ParseDigits(SubSeq(label, 14, 15)))
    ELSE Null


----------------------------------------------------------------------------
(* identifyVersionsToCleanup                                               *)

\* only AWSCURRENT is skipped
HasRequiredLabel_CurrentOnly(labels) == Includes(labels, AWSCURRENT)

HasRequiredLabel(labels) ==
    Includes(labels, AWSCURRENT) \/ Includes(labels, AWSPREVIOUS)

\* only the first timestamp label of a version is tracked
TimestampEntries_FirstOnly(entry) ==
    LET timestampLabels == SelectSeq(entry.labels, isTimestampLabel)
    IN  IF Includes(entry.labels, AWSCURRENT) \/ Includes(entry.labels, AWSPREVIOUS)
           \/ timestampLabels = <<>>
        THEN <<>>
        ELSE <<[versionId |-> entry.versionId,
                label     |-> timestampLabels[1],
                timestamp |-> parseTimestampLabel(timestampLabels[1]),
                allLabels |-> entry.labels]>>

\* versions that hold AWSCURRENT or AWSPREVIOUS are tracked like the others
TimestampEntries_NoSkip(entry) ==
    LET timestampLabels ==
            SelectSeq(SelectSeq(entry.labels, isTimestampLabel),
                      LAMBDA l : parseTimestampLabel(l) # Null)
    IN  [i \in 1..Len(timestampLabels) |->
            [versionId |-> entry.versionId,
             label     |-> timestampLabels[i],
             timestamp |-> parseTimestampLabel(timestampLabels[i]),
             allLabels |-> entry.labels]]

\* the entries pushed to timestampVersions for one [versionId, labels] entry
TimestampEntries(entry) ==
    LET timestampLabels ==
            SelectSeq(SelectSeq(entry.labels, isTimestampLabel),
                      LAMBDA l : parseTimestampLabel(l) # Null)
    IN  IF HasRequiredLabel(entry.labels) THEN <<>>
        ELSE [i \in 1..Len(timestampLabels) |->
                [versionId |-> entry.versionId,
                 label     |-> timestampLabels[i],
                 timestamp |-> parseTimestampLabel(timestampLabels[i]),
                 allLabels |-> entry.labels]]

RECURSIVE CollectTimestampVersions(_)
CollectTimestampVersions(vs) ==
    IF vs = <<>> THEN <<>>
    ELSE TimestampEntries(Head(vs)) \o CollectTimestampVersions(Tail(vs))

\* a plain else: every version without timestamp labels counts as unlabeled
IsUnlabeledEntry_NoLengthCheck(entry) ==
    /\ ~(Includes(entry.labels, AWSCURRENT) \/ Includes(entry.labels, AWSPREVIOUS))
    /\ SelectSeq(entry.labels, isTimestampLabel) = <<>>

\* the versions pushed to toDeleteVersions by the first loop
IsUnlabeledEntry(entry) ==
    /\ ~HasRequiredLabel(entry.labels)
    /\ SelectSeq(entry.labels, isTimestampLabel) = <<>>
    /\ Len(entry.labels) = 0

\* the loop stops at the first unlabeled version
CollectUnlabeled_FirstOnly(vs) ==
    LET unlabeled == SelectSeq(vs, LAMBDA e : Len(e.labels) = 0)
    IN  IF unlabeled = <<>> THEN <<>> ELSE <<unlabeled[1].versionId>>

RECURSIVE CollectUnlabeled(_)
CollectUnlabeled(vs) ==
    IF vs = <<>> THEN <<>>
    ELSE (IF IsUnlabeledEntry(Head(vs)) THEN <<Head(vs).versionId>> ELSE <<>>)
         \o CollectUnlabeled(Tail(vs))

\* the comparator a.timestamp - b.timestamp: oldest first
NewestFirst_Ascending(a, b) == a.timestamp - b.timestamp <= 0

\* the comparator (a, b) => b.timestamp - a.timestamp: true when a stays
\* in front of b
NewestFirst(a, b) == b.timestamp - a.timestamp <= 0

\* stable insertion of x into a sequence sorted by NewestFirst
RECURSIVE SortedInsert(_, _)
SortedInsert(sorted, x) ==
    IF sorted = <<>> THEN <<x>>
    ELSE IF NewestFirst(Head(sorted), x)
         THEN <<Head(sorted)>> \o SortedInsert(Tail(sorted), x)
         ELSE <<x>> \o sorted

\* timestampVersions.sort(...), a stable sort
RECURSIVE SortByTimestamp(_)
SortByTimestamp(seq) ==
    IF seq = <<>> THEN <<>>
    ELSE SortedInsert(SortByTimestamp(SubSeq(seq, 1, Len(seq) - 1)), seq[Len(seq)])

\* getDate() + keepDays
CutoffDate_Added(clock, keepDays) == clock + keepDays.val * SecondsPerDay

\* cutoffDate = new Date(); cutoffDate.setDate(cutoffDate.getDate() - keepDays)
CutoffDate(clock, keepDays) == clock - keepDays.val * SecondsPerDay

\* every timestamp label is left out, not only the one being removed
RemainingLabels_NoTimestamps(version) ==
    SelectSeq(version.allLabels,
              LAMBDA l : ~isTimestampLabel(l) /\ ~Includes(AWS_REQUIRED_LABELS, l))

\* labels of the version other than the removed one and the required ones
RemainingLabels(version) ==
    SelectSeq(version.allLabels,
              LAMBDA l : l # version.label /\ ~Includes(AWS_REQUIRED_LABELS, l))

\* the marking loop runs once in the days-filter branch and once more after it
MarkRemoveLabels_Twice(cleanup) ==
    [i \in 1..(2 * Len(cleanup)) |->
        [versionId |-> cleanup[((i - 1) % Len(cleanup)) + 1].versionId,
         label     |-> cleanup[((i - 1) % Len(cleanup)) + 1].label]]

\* the loop "Mark versions for cleanup" (the same in both branches)
MarkRemoveLabels(cleanup) ==
    [i \in 1..Len(cleanup) |->
        [versionId |-> cleanup[i].versionId, label |-> cleanup[i].label]]

RECURSIVE MarkDeleteVersions(_)
MarkDeleteVersions(cleanup) ==
    IF cleanup = <<>> THEN <<>>
    ELSE (IF Len(RemainingLabels(Head(cleanup))) = 0
          THEN <<Head(cleanup).versionId>> ELSE <<>>)
         \o MarkDeleteVersions(Tail(cleanup))

\* keepDays > 0 is not tested
DaysFilterApplies_StrictOnly(keepDays, strict) == ~strict

\* the strict flag is not consulted
DaysFilterApplies_IgnoresStrict(keepDays, strict) == GreaterThanZero(keepDays)

\* the days filter is applied only if not in strict mode
DaysFilterApplies(keepDays, strict) == (~strict) /\ GreaterThanZero(keepDays)

\* the days filter runs over timestampVersions, not over versionsToCleanup
identifyVersionsToCleanup_FilterAll(vs, keepCount, keepDays, strict, clock) ==
    LET timestampVersions == SortByTimestamp(CollectTimestampVersions(vs))
        versionsToKeep    == SliceTo(timestampVersions, keepCount)
        versionsToCleanup == SliceFrom(timestampVersions, keepCount)
        final ==
            IF DaysFilterApplies(keepDays, strict)
            THEN SelectSeq(timestampVersions,
                           LAMBDA v : ~(v.timestamp > CutoffDate(clock, keepDays)))
            ELSE versionsToCleanup
    IN  [toRemoveLabels    |-> MarkRemoveLabels(final),
         toDeleteVersions  |-> CollectUnlabeled(vs) \o MarkDeleteVersions(final),
         versionsToKeep    |-> Len(versionsToKeep),
         versionsToCleanup |-> Len(versionsToCleanup)]

identifyVersionsToCleanup(vs, keepCount, keepDays, strict, clock) ==
    LET timestampVersions == SortByTimestamp(CollectTimestampVersions(vs))
        versionsToKeep    == SliceTo(timestampVersions, keepCount)
        versionsToCleanup == SliceFrom(timestampVersions, keepCount)
        final ==
            IF DaysFilterApplies(keepDays, strict)
            THEN SelectSeq(versionsToCleanup,
                           LAMBDA v : ~(v.timestamp > CutoffDate(clock, keepDays)))
            ELSE versionsToCleanup
    IN  [toRemoveLabels    |-> MarkRemoveLabels(final),
         toDeleteVersions  |-> CollectUnlabeled(vs) \o MarkDeleteVersions(final),
         versionsToKeep    |-> Len(versionsToKeep),
         versionsToCleanup |-> Len(versionsToCleanup)]

----------------------------------------------------------------------------
(* generateTimestampLabel                                                  *)

\* String(n) for n >= 0
RECURSIVE ToDigits(_)
ToDigits(n) ==
    IF n < 10 THEN <<DigitChars[n + 1]>>
    ELSE ToDigits(n \div 10) \o <<DigitChars[(n % 10) + 1]>>

\* String(n).padStart(2, '0')
PadStart2(n) == IF Len(ToDigits(n)) < 2 THEN <<"0">> \o ToDigits(n) ELSE ToDigits(n)

\* `${year}${month}${day}_${hours}${minutes}${seconds}`, month 1-based
FormatLabel(year, month, day, hours, minutes, seconds) ==
    ToDigits(year) \o PadStart2(month) \o PadStart2(day) \o <<"_">>
        \o PadStart2(hours) \o PadStart2(minutes) \o PadStart2(seconds)

----------------------------------------------------------------------------
(* The secret store: UpdateSecretVersionStage with RemoveFromVersionId     *)

\* every label of versionId is detached
RemoveLabel_AllLabels(st, versionId, label) ==
    [i \in 1..Len(st) |->
        IF st[i].versionId = versionId
        THEN [st[i] EXCEPT !.labels = <<>>]
        ELSE st[i]]

\* detach label from versionId (nothing changes when it is not attached there)
RemoveLabel(st, versionId, label) ==
    [i \in 1..Len(st) |->
        IF st[i].versionId = versionId
        THEN [st[i] EXCEPT !.labels = SelectSeq(@, LAMBDA l : l # label)]
        ELSE st[i]]

\* every removal call of a plan, in order, all succeeding
RECURSIVE RemoveAll(_, _)
RemoveAll(st, items) ==
    IF items = <<>> THEN st
    ELSE RemoveAll(RemoveLabel(st, Head(items).versionId, Head(items).label),
                   Tail(items))

----------------------------------------------------------------------------
(* Planner harness: the label maps and policies the planner is applied to  *)

MaxVersions == 3

MaxKeep == 2

MaxDays == 2

DEFAULT_KEEP_COUNT == 10

DEFAULT_KEEP_DAYS == 7

StampA == FormatLabel(2025, 1, 1, 0, 0, 0)

\* ahead of the clock below, as a label written under another clock is
StampB == FormatLabel(2025, 1, 3, 0, 0, 0)

\* December 32nd: parses to the same moment as StampA
StampC == FormatLabel(2024, 12, 32, 0, 0, 0)

ManualBackup == <<"m","a","n","u","a","l","-","b","a","c","k","u","p">>

\* seven digits before the underscore
Malformed == <<"2","0","2","5","0","1","0","_","0","0","0","0","0","0">>

ForeignLabels == {ManualBackup, Malformed}

\* labels in the order a version lists them, with one foreign label
LabelPool(foreign) == <<AWSCURRENT, AWSPREVIOUS, StampA, StampB, StampC, foreign>>

\* each label is attached to at most one version (0: to none); AWSCURRENT is
\* always attached, here to the version listed first
Attachments ==
    {f \in [1..Len(LabelPool(ManualBackup)) -> 0..MaxVersions] : f[1] = 1}

LabelMapOf(f, pool) ==
    [v \in 1..MaxVersions |->
        [versionId |-> v,
         labels |-> SelectSeq(pool, LAMBDA l : \E i \in 1..Len(pool) :
                                                  pool[i] = l /\ f[i] = v)]]

Clocks == {MakeDate(2025, 0, 2, 12, 0, 0)}

KeepCounts == {Num(n) : n \in -1..MaxKeep} \cup {NaN}

KeepDays == {Num(n) : n \in 0..MaxDays}

NoPlan ==
    [toRemoveLabels |-> <<>>, toDeleteVersions |-> <<>>,
     versionsToKeep |-> 0, versionsToCleanup |-> 0]

DefaultPolicy ==
    [keepCount |-> Num(DEFAULT_KEEP_COUNT), keepDays |-> Num(DEFAULT_KEEP_DAYS),
     strict |-> FALSE]

----------------------------------------------------------------------------
(* Local-time fields of a Date (YearFromTime, MonthFromTime, DateFromTime) *)

Day(t) == t \div SecondsPerDay

TimeWithinDay(t) == t % SecondsPerDay

YearFromTime(t) ==
    CHOOSE y \in (1970 + Day(t) \div 366)..(1970 + Day(t) \div 365) :
        DayFromYear(y) <= Day(t) /\ Day(t) < DayFromYear(y + 1)

DayWithinYear(t) == Day(t) - DayFromYear(YearFromTime(t))

\* 0-based month
MonthFromTime(t) ==
    CHOOSE m \in 0..11 :
        /\ DaysBeforeMonth(YearFromTime(t), m) <= DayWithinYear(t)
        /\ m < 11 => DayWithinYear(t) < DaysBeforeMonth(YearFromTime(t), m + 1)

DateFromTime(t) ==
    DayWithinYear(t) - DaysBeforeMonth(YearFromTime(t), MonthFromTime(t)) + 1

generateTimestampLabel(clock) ==
    FormatLabel(YearFromTime(clock), MonthFromTime(clock) + 1, DateFromTime(clock),
                TimeWithinDay(clock) \div 3600, (TimeWithinDay(clock) \div 60) % 60,
                TimeWithinDay(clock) % 60)

----------------------------------------------------------------------------
(* The secret value: JSON text as the sequence of its "key": "value"       *)
(* members, an object as its own properties in insertion order             *)

Undefined == <<"undefined">>

KeysOf(pairs) == {pairs[i].key : i \in 1..Len(pairs)}

\* JSON.parse: a repeated member keeps its first place and its last value
RECURSIVE JsonParse(_)
JsonParse(text) ==
    IF text = <<>> THEN <<>>
    ELSE LET init == JsonParse(SubSeq(text, 1, Len(text) - 1))
             last == text[Len(text)]
         IN  IF last.key \in KeysOf(init)
             THEN [i \in 1..Len(init) |->
                     IF init[i].key = last.key THEN last ELSE init[i]]
             ELSE Append(init, last)

\* object[key] = value
SetProperty(object, key, value) ==
    IF key \in KeysOf(object)
    THEN [i \in 1..Len(object) |->
            IF object[i].key = key THEN [key |-> key, value |-> value] ELSE object[i]]
    ELSE Append(object, [key |-> key, value |-> value])

\* JSON.stringify: properties whose value is undefined are left out
JsonStringify(object) == SelectSeq(object, LAMBDA m : m.value # Undefined)

\* object[key], undefined when absent
GetProperty(object, key) ==
    IF key \in KeysOf(object)
    THEN (CHOOSE m \in Range(object) : m.key = key).value
    ELSE Undefined

----------------------------------------------------------------------------
(* The secret store: GetSecretValue, PutSecretValue, UpdateSecretVersionStage *)

MaxStagingLabels == 20

\* position of the version that carries label, 0 when none does
VersionWith(st, label) ==
    IF \E i \in 1..Len(st) : Includes(st[i].labels, label)
    THEN CHOOSE i \in 1..Len(st) : Includes(st[i].labels, label)
    ELSE 0

TotalLabels(st) ==
    LET RECURSIVE Sum(_)
        Sum(i) == IF i = 0 THEN 0 ELSE Len(st[i].labels) + Sum(i - 1)
    IN  Sum(Len(st))

\* SecretString of the AWSCURRENT version
CurrentSecretString(st, strings) == strings[st[VersionWith(st, AWSCURRENT)].versionId]

\* PutSecretValue: a new version takes AWSCURRENT, the version that had it
\* takes AWSPREVIOUS, the version that had AWSPREVIOUS loses it
PutSecretValue(st, newId) ==
    [i \in 1..Len(st) |->
        [st[i] EXCEPT !.labels =
            IF Includes(@, AWSCURRENT)
            THEN Append(SelectSeq(@, LAMBDA l : l # AWSCURRENT /\ l # AWSPREVIOUS),
                        AWSPREVIOUS)
            ELSE SelectSeq(@, LAMBDA l : l # AWSPREVIOUS)]]
    \o <<[versionId |-> newId, labels |-> <<AWSCURRENT>>]>>

\* UpdateSecretVersionStage with MoveToVersionId and no RemoveFromVersionId is
\* refused when the label is attached to another version or no label slot is left
CanAttach(st, label, versionId) ==
    /\ VersionWith(st, label) \in {0, versionId}
    /\ VersionWith(st, label) = 0 => TotalLabels(st) < MaxStagingLabels

AttachLabel(st, label, versionId) ==
    [i \in 1..Len(st) |->
        IF st[i].versionId = versionId /\ ~Includes(st[i].labels, label)
        THEN [st[i] EXCEPT !.labels = Append(@, label)]
        ELSE st[i]]

----------------------------------------------------------------------------
(* updateSecretValue, getCurrentSecretValues,                              *)
(* labelPreviousVersionWithTimestamp                                       *)

MaxRotations == 3

MaxTicks == 2

Keys == {"JWT_PRIV", "JWT_PUB"}

\* the value generated for the n-th version of the secret
FreshValue(n) == <<"k", n>>

InitialSecrets ==
    { <<>>,
      <<[key |-> "MAIN_APPLE_CLIENT_SECRET", value |-> <<"a", 0>>]>>,
      <<[key |-> "JWT_PUB", value |-> <<"p", 0>>],
        [key |-> "MAIN_GOOGLE_WEB_CLIENT_SECRET", value |-> <<"g", 0>>]>> }

\* hand-attached labels that leave two of the MaxStagingLabels slots free
NearCapLabels ==
    LET letters == <<"a","b","c","d","e","f","g","h","i","j","k","l","m","n","o",
                     "p","q","r","s","t","u","v","w","x","y","z">>
    IN  [k \in 1..(MaxStagingLabels - 2) |-> <<"m", "-", letters[k]>>]

\* the labels of the secret's only version: AWSCURRENT, and labels an
\* operator may have attached by hand
InitialLabels ==
    {<<AWSCURRENT>>, <<AWSCURRENT, ManualBackup>>, <<AWSCURRENT>> \o NearCapLabels}

IdleUpdate ==
    [pc |-> "idle", key |-> "", value |-> <<>>, currentValues |-> <<>>,
     startValues |-> <<>>, versionId |-> 0]

AllIdle == (\A u \in DOMAIN upd : upd[u].pc = "idle") /\ cli.pc = "idle"

\* a caller invokes updateSecretValue(secretName, key, value)
BeginUpdate(u) ==
    /\ upd[u].pc = "idle"
    /\ Len(store) <= MaxRotations
    /\ \E k \in Keys :
        upd' = [upd EXCEPT ![u] =
                    [IdleUpdate EXCEPT !.pc = "read", !.key = k,
                        !.value = FreshValue(Len(store) + 1),
                        !.startValues = JsonParse(CurrentSecretString(store, secretStrings))]]
    /\ UNCHANGED <<store, now, planVars, secretStrings, cli, calls>>

\* getCurrentSecretValues returns the parsed SecretString
ReadValues(u) ==
    /\ upd[u].pc = "read"
    /\ upd' = [upd EXCEPT ![u].pc = "put",
                          ![u].currentValues =
                              JsonParse(CurrentSecretString(store, secretStrings))]
    /\ UNCHANGED <<store, now, planVars, secretStrings, cli, calls>>

\* a failed read is answered with {} and the update goes on
ReadFails_EmptyObject(u) ==
    /\ upd[u].pc = "read"
    /\ upd' = [upd EXCEPT ![u].pc = "put", ![u].currentValues = <<>>]
    /\ UNCHANGED <<store, now, planVars, secretStrings, cli, calls>>

\* GetSecretValue fails (not ResourceNotFoundException): updateSecretValue throws
ReadFails(u) ==
    /\ upd[u].pc = "read"
    /\ upd' = [upd EXCEPT ![u].pc = "failed"]
    /\ UNCHANGED <<store, now, planVars, secretStrings, cli, calls>>

\* an object holding the updated key alone is written
UpdatedValues_OnlyKey(currentValues, key, value) == SetProperty(<<>>, key, value)

\* the object written by step 2 and step 3
UpdatedValues(currentValues, key, value) == SetProperty(currentValues, key, value)

\* currentValues[key] = value; PutSecretValue(JSON.stringify(currentValues))
PutValues(u) ==
    /\ upd[u].pc = "put"
    /\ LET newId == Len(store) + 1
           updated == UpdatedValues(upd[u].currentValues, upd[u].key, upd[u].value)
       IN  /\ store' = PutSecretValue(store, newId)
           /\ secretStrings' = Append(secretStrings, JsonStringify(updated))
           /\ upd' = [upd EXCEPT ![u].pc = "label", ![u].currentValues = updated,
                                 ![u].versionId = newId]
    /\ UNCHANGED <<now, planVars, cli, calls>>

\* PutSecretValue fails: updateSecretValue throws
PutFails(u) ==
    /\ upd[u].pc = "put"
    /\ upd' = [upd EXCEPT ![u].pc = "failed"]
    /\ UNCHANGED <<store, now, planVars, secretStrings, cli, calls>>

\* labelPreviousVersionWithTimestamp: the AWSPREVIOUS version gets the label of
\* the clock; a refused call is caught and only warned about
LabelPrevious(u) ==
    /\ upd[u].pc = "label"
    /\ LET previousVersionId == VersionWith(store, AWSPREVIOUS)
           timestampLabel == generateTimestampLabel(now)
       IN  store' = IF previousVersionId # 0
                       /\ CanAttach(store, timestampLabel, previousVersionId)
                    THEN AttachLabel(store, timestampLabel, previousVersionId)
                    ELSE store
    /\ upd' = [upd EXCEPT ![u].pc = "done"]
    /\ UNCHANGED <<now, planVars, secretStrings, cli, calls>>

\* the error of the label call is not caught: updateSecretValue throws
LabelFails_Throws(u) ==
    /\ upd[u].pc = "label"
    /\ upd' = [upd EXCEPT ![u].pc = "failed"]
    /\ UNCHANGED <<store, now, planVars, secretStrings, cli, calls>>

\* the label call fails for another reason: caught, the update continues
LabelFails(u) ==
    /\ upd[u].pc = "label"
    /\ upd' = [upd EXCEPT ![u].pc = "done"]
    /\ UNCHANGED <<store, now, planVars, secretStrings, cli, calls>>

\* the caller has the response, or the error thrown: the call is over
UpdateReturns(u) ==
    /\ upd[u].pc \in {"done", "failed"}
    /\ upd' = [upd EXCEPT ![u] = IdleUpdate]
    /\ UNCHANGED <<store, now, planVars, secretStrings, cli, calls>>

StartOfRun == MakeDate(2025, 0, 2, 12, 0, 0)

\* the clock advances by a day
Tick ==
    /\ now < StartOfRun + MaxTicks * SecondsPerDay
    /\ now' = now + SecondsPerDay
    /\ UNCHANGED <<store, planVars, runVars>>

----------------------------------------------------------------------------
(* main: the options of "cleanup <secret-name> [options]"                  *)

DRY_RUN == <<"-","-","d","r","y","-","r","u","n">>

FORCE == <<"-","-","f","o","r","c","e">>

STRICT == <<"-","-","s","t","r","i","c","t">>

KEEP == <<"-","-","k","e","e","p">>

DAYS == <<"-","-","d","a","y","s">>

\* the digits a string starts with
RECURSIVE LeadingDigits(_)
LeadingDigits(str) ==
    IF str # <<>> /\ IsDigit(Head(str))
    THEN <<Head(str)>> \o LeadingDigits(Tail(str))
    ELSE <<>>

RECURSIVE TrimStart(_)
TrimStart(str) ==
    IF str # <<>> /\ Head(str) = " " THEN TrimStart(Tail(str)) ELSE str

\* parseInt(str): leading blanks, a sign, then decimal digits; NaN without digits
ParseInt(str) ==
    LET trimmed  == TrimStart(str)
        negative == trimmed # <<>> /\ Head(trimmed) = "-"
        signed   == trimmed # <<>> /\ Head(trimmed) \in {"-", "+"}
        digits   == LeadingDigits(IF signed THEN Tail(trimmed) ELSE trimmed)
    IN  IF digits = <<>> THEN NaN
        ELSE Num(IF negative THEN 0 - ParseDigits(digits) ELSE ParseDigits(digits))

NoOptions ==
    [dryRun |-> FALSE, force |-> FALSE, strict |-> FALSE,
     hasKeep |-> FALSE, keepCount |-> NaN, hasDays |-> FALSE, keepDays |-> NaN]

\* the loop over args[2..]; i is the 1-based position in the option words
RECURSIVE ParseOptions(_, _, _)
ParseOptions(args, i, options) ==
    IF i > Len(args) THEN options
    ELSE IF args[i] = DRY_RUN
         THEN ParseOptions(args, i + 1, [options EXCEPT !.dryRun = TRUE])
    ELSE IF args[i] = FORCE
         THEN ParseOptions(args, i + 1, [options EXCEPT !.force = TRUE])
    ELSE IF args[i] = STRICT
         THEN ParseOptions(args, i + 1, [options EXCEPT !.strict = TRUE])
    ELSE IF args[i] = KEEP /\ i + 1 <= Len(args)
         THEN ParseOptions(args, i + 2,
                  [options EXCEPT !.hasKeep = TRUE, !.keepCount = ParseInt(args[i + 1])])
    ELSE IF args[i] = DAYS /\ i + 1 <= Len(args)
         THEN ParseOptions(args, i + 2,
                  [options EXCEPT !.hasDays = TRUE, !.keepDays = ParseInt(args[i + 1])])
    ELSE ParseOptions(args, i + 1, options)

\* the destructuring defaults of cleanupVersions
KeepCountOf(options) ==
    IF options.hasKeep THEN options.keepCount ELSE Num(DEFAULT_KEEP_COUNT)

KeepDaysOf(options) ==
    IF options.hasDays THEN options.keepDays ELSE Num(DEFAULT_KEEP_DAYS)

\* the option words the command is run with
ArgLists ==
    { <<>>,
      <<KEEP, <<"1">>, STRICT, FORCE>>,
      <<KEEP, <<"0">>, STRICT, FORCE>>,
      <<KEEP, <<"-","1">>, STRICT, FORCE>>,
      <<KEEP, <<"a","b","c">>, FORCE>>,
      <<KEEP, <<"1">>, STRICT, DRY_RUN>>,
      <<KEEP, <<"0">>, STRICT, DRY_RUN, FORCE>>,
      <<KEEP, <<"1">>, DAYS, <<"0">>>>,
      <<FORCE, KEEP>> }

----------------------------------------------------------------------------
(* cleanupVersions                                                         *)

\* no cleanup command is running; completed: "Cleanup completed successfully!"
\* has been printed; confirmed: the answer to the prompt, "unasked" without one
IdleCli ==
    [pc |-> "idle", options |-> NoOptions, i |-> 0, completed |-> FALSE,
     confirmed |-> "unasked"]

\* main parses the options and calls cleanupVersions
CliStart ==
    /\ cli.pc = "idle"
    /\ \E args \in ArgLists :
        cli' = [pc |-> "fetch", options |-> ParseOptions(args, 1, NoOptions), i |-> 0,
                completed |-> FALSE, confirmed |-> "unasked"]
    /\ versions' = <<>>
    /\ plan' = NoPlan
    /\ calls' = <<>>
    /\ UNCHANGED <<store, now, phase, policy, prevPlan, secretStrings, upd>>

\* the "if (dryRun) return" is missing
AfterPlan_NoDryRunReturn(cleanup, options) ==
    IF cleanup.toRemoveLabels = <<>> /\ cleanup.toDeleteVersions = <<>> THEN "done"
    ELSE IF ~options.dryRun /\ ~options.force THEN "confirm"
    ELSE "exec"

\* where cleanupVersions goes once the plan is printed
AfterPlan(cleanup, options) ==
    IF cleanup.toRemoveLabels = <<>> /\ cleanup.toDeleteVersions = <<>> THEN "done"
    ELSE IF ~options.dryRun /\ ~options.force THEN "confirm"
    ELSE IF options.dryRun THEN "done"
    ELSE "exec"

\* getSecretVersions answers; the plan is computed and printed
CliPlan ==
    /\ cli.pc = "fetch"
    /\ LET cleanup == identifyVersionsToCleanup(store, KeepCountOf(cli.options),
                          KeepDaysOf(cli.options), cli.options.strict, now)
       IN  /\ plan' = cleanup
           /\ cli' = [cli EXCEPT !.pc = AfterPlan(cleanup, cli.options), !.i = 1]
    /\ versions' = store
    /\ policy' = [keepCount |-> KeepCountOf(cli.options),
                  keepDays |-> KeepDaysOf(cli.options), strict |-> cli.options.strict]
    /\ UNCHANGED <<store, now, phase, prevPlan, secretStrings, upd, calls>>

\* getSecretVersions answers {} when the call fails, and the run goes on
CliFetchFails_Swallowed ==
    /\ cli.pc = "fetch"
    /\ LET cleanup == identifyVersionsToCleanup(<<>>, KeepCountOf(cli.options),
                          KeepDaysOf(cli.options), cli.options.strict, now)
       IN  /\ plan' = cleanup
           /\ cli' = [cli EXCEPT !.pc = AfterPlan(cleanup, cli.options), !.i = 1]
    /\ UNCHANGED <<store, now, versions, phase, policy, prevPlan, secretStrings,
                   upd, calls>>

\* getSecretVersions throws: main prints the error and exits with code 1
CliFetchFails ==
    /\ cli.pc = "fetch"
    /\ cli' = [cli EXCEPT !.pc = "exit1"]
    /\ UNCHANGED <<store, now, planVars, secretStrings, upd, calls>>

\* the answer is read and the cleanup goes on whatever it is
CliConfirm_IgnoresAnswer ==
    /\ cli.pc = "confirm"
    /\ \E confirmed \in BOOLEAN :
        cli' = [cli EXCEPT !.pc = "exec",
                           !.confirmed = IF confirmed THEN "yes" ELSE "no"]
    /\ UNCHANGED <<store, now, planVars, secretStrings, upd, calls>>

\* the answer to "Do you want to proceed with the cleanup?"
CliConfirm ==
    /\ cli.pc = "confirm"
    /\ \E confirmed \in BOOLEAN :
        cli' = [cli EXCEPT !.pc = IF confirmed THEN "exec" ELSE "done",
                           !.confirmed = IF confirmed THEN "yes" ELSE "no"]
    /\ UNCHANGED <<store, now, planVars, secretStrings, upd, calls>>

\* removeLabelFromVersion for the next item: the store detaches the label
CliRemove ==
    /\ cli.pc = "exec"
    /\ cli.i <= Len(plan.toRemoveLabels)
    /\ LET item == plan.toRemoveLabels[cli.i]
       IN  /\ store' = RemoveLabel(store, item.versionId, item.label)
           /\ calls' = Append(calls, [versionId |-> item.versionId,
                                      label |-> item.label, ok |-> TRUE])
    /\ cli' = [cli EXCEPT !.i = @ + 1]
    /\ UNCHANGED <<now, planVars, secretStrings, upd>>

\* the error of a failed call is not caught: it leaves the loop and main exits
CliRemoveFails_Aborts ==
    /\ cli.pc = "exec"
    /\ cli.i <= Len(plan.toRemoveLabels)
    /\ LET item == plan.toRemoveLabels[cli.i]
       IN  calls' = Append(calls, [versionId |-> item.versionId,
                                   label |-> item.label, ok |-> FALSE])
    /\ cli' = [cli EXCEPT !.pc = "exit1"]
    /\ UNCHANGED <<store, now, planVars, secretStrings, upd>>

\* removeLabelFromVersion for the next item: the call fails, the error is logged
CliRemoveFails ==
    /\ cli.pc = "exec"
    /\ cli.i <= Len(plan.toRemoveLabels)
    /\ LET item == plan.toRemoveLabels[cli.i]
       IN  calls' = Append(calls, [versionId |-> item.versionId,
                                   label |-> item.label, ok |-> FALSE])
    /\ cli' = [cli EXCEPT !.i = @ + 1]
    /\ UNCHANGED <<store, now, planVars, secretStrings, upd>>

\* "Cleanup completed successfully!" is printed, then listVersions shows the
\* final state or throws
CliFinish ==
    /\ cli.pc = "exec"
    /\ cli.i > Len(plan.toRemoveLabels)
    /\ \E listed \in BOOLEAN :
        cli' = [cli EXCEPT !.pc = IF listed THEN "done" ELSE "exit1",
                           !.completed = TRUE]
    /\ UNCHANGED <<store, now, planVars, secretStrings, upd, calls>>

\* the process has ended, with exit code 0 ("done") or 1 ("exit1")
CliExit ==
    /\ cli.pc \in {"done", "exit1"}
    /\ cli' = IdleCli
    /\ versions' = <<>>
    /\ plan' = NoPlan
    /\ policy' = DefaultPolicy
    /\ calls' = <<>>
    /\ UNCHANGED <<store, now, phase, prevPlan, secretStrings, upd>>

----------------------------------------------------------------------------
(* The tools run one after the other against one secret                    *)

Init ==
    /\ \E labels \in InitialLabels : store = <<[versionId |-> 1, labels |-> labels]>>
    /\ \E text \in InitialSecrets : secretStrings = <<text>>
    /\ now = StartOfRun
    /\ versions = <<>>
    /\ phase = "run"
    /\ policy = DefaultPolicy
    /\ plan = NoPlan
    /\ prevPlan = NoPlan
    /\ upd = <<IdleUpdate>>
    /\ cli = IdleCli
    /\ calls = <<>>

Next ==
    \/ \E u \in DOMAIN upd : AllIdle /\ BeginUpdate(u)
    \/ \E u \in DOMAIN upd : ReadValues(u)
    \/ \E u \in DOMAIN upd : ReadFails(u)
    \/ \E u \in DOMAIN upd : PutValues(u)
    \/ \E u \in DOMAIN upd : PutFails(u)
    \/ \E u \in DOMAIN upd : LabelPrevious(u)
    \/ \E u \in DOMAIN upd : LabelFails(u)
    \/ \E u \in DOMAIN upd : UpdateReturns(u)
    \/ AllIdle /\ Tick
    \/ AllIdle /\ CliStart
    \/ CliPlan
    \/ CliFetchFails
    \/ CliConfirm
    \/ CliRemove
    \/ CliRemoveFails
    \/ CliFinish
    \/ CliExit

Spec == Init /\ [][Next]_vars

----------------------------------------------------------------------------
(* The planner applied to every label map of the pool, then to the map     *)
(* its plan leaves                                                         *)

InitPlan ==
    /\ store \in {LabelMapOf(f, LabelPool(foreign)) :
                    f \in Attachments, foreign \in ForeignLabels}
    /\ now \in Clocks
    /\ versions = <<>>
    /\ phase = "input"
    /\ policy = DefaultPolicy
    /\ plan = NoPlan
    /\ prevPlan = NoPlan
    /\ secretStrings = <<>>
    /\ upd = <<>>
    /\ cli = [IdleCli EXCEPT !.pc = "off"]
    /\ calls = <<>>

\* getSecretVersions, then identifyVersionsToCleanup under a chosen policy
PlanCall ==
    /\ phase = "input"
    /\ \E kc \in KeepCounts, kd \in KeepDays, st \in BOOLEAN :
        /\ policy' = [keepCount |-> kc, keepDays |-> kd, strict |-> st]
        /\ plan' = identifyVersionsToCleanup(store, kc, kd, st, now)
    /\ versions' = store
    /\ phase' = "planned"
    /\ UNCHANGED <<store, now, prevPlan, runVars>>

\* the removal loop of cleanupVersions with every call succeeding
ApplyPlan ==
    /\ phase \in {"planned", "replanned"}
    /\ store' = RemoveAll(store, plan.toRemoveLabels)
    /\ phase' = "applied"
    /\ UNCHANGED <<now, versions, policy, plan, prevPlan, runVars>>

\* the next cleanup run, same policy, clock held
Replan ==
    /\ phase = "applied"
    /\ prevPlan' = plan
    /\ versions' = store
    /\ plan' = identifyVersionsToCleanup(store, policy.keepCount, policy.keepDays,
                                         policy.strict, now)
    /\ phase' = "replanned"
    /\ UNCHANGED <<store, now, policy, runVars>>

NextPlan == PlanCall \/ ApplyPlan \/ Replan

SpecPlan == InitPlan /\ [][NextPlan]_vars

----------------------------------------------------------------------------
(* The planner applied again after a removal loop in which only some calls *)
(* succeeded                                                               *)

\* the entries of items at the positions in succeeded, in order
SucceededCalls(items, succeeded) ==
    LET RECURSIVE From(_)
        From(k) == IF k > Len(items) THEN <<>>
                   ELSE (IF k \in succeeded THEN <<items[k]>> ELSE <<>>) \o From(k + 1)
    IN  From(1)

\* the removal loop of cleanupVersions: the calls at the positions in
\* succeeded detach their label, the others fail and are only logged
ApplySome ==
    /\ phase \in {"planned", "replanned"}
    /\ \E succeeded \in SUBSET (1..Len(plan.toRemoveLabels)) :
        store' = RemoveAll(store, SucceededCalls(plan.toRemoveLabels, succeeded))
    /\ phase' = "applied"
    /\ UNCHANGED <<now, versions, policy, plan, prevPlan, runVars>>

NextPartial == PlanCall \/ ApplySome \/ Replan

SpecPartial == InitPlan /\ [][NextPartial]_vars

----------------------------------------------------------------------------
(* The emergency cleanup command run again and again on one secret, with   *)
(* no rotation in between                                                  *)

\* "cleanup <secret-name> --keep N --strict --force"
StrictCommand(keepCount) == <<KEEP, ToDigits(keepCount), STRICT, FORCE>>

InitConverge ==
    /\ store \in {LabelMapOf(f, LabelPool(foreign)) :
                    f \in Attachments, foreign \in ForeignLabels}
    /\ now \in Clocks
    /\ versions = <<>>
    /\ phase = "loop"
    /\ \E n \in 0..MaxKeep :
        policy = [keepCount |-> Num(n), keepDays |-> Num(DEFAULT_KEEP_DAYS),
                  strict |-> TRUE]
    /\ plan = NoPlan
    /\ prevPlan = NoPlan
    /\ secretStrings = <<>>
    /\ upd = <<>>
    /\ cli = IdleCli
    /\ calls = <<>>

\* main is started with the same command line as before
CliStartAgain ==
    /\ cli.pc = "idle"
    /\ cli' = [IdleCli EXCEPT
                 !.pc = "fetch",
                 !.options = ParseOptions(StrictCommand(policy.keepCount.val), 1,
                                          NoOptions)]
    /\ versions' = <<>>
    /\ plan' = NoPlan
    /\ calls' = <<>>
    /\ UNCHANGED <<store, now, phase, policy, prevPlan, secretStrings, upd>>

\* the process has ended; its plan is remembered as the plan of the last run
CliExitAgain ==
    /\ cli.pc \in {"done", "exit1"}
    /\ cli' = IdleCli
    /\ versions' = <<>>
    /\ prevPlan' = plan
    /\ plan' = NoPlan
    /\ calls' = <<>>
    /\ UNCHANGED <<store, now, phase, policy, secretStrings, upd>>

NextConverge ==
    \/ CliStartAgain
    \/ CliPlan
    \/ CliFetchFails
    \/ CliRemove
    \/ CliRemoveFails
    \/ CliFinish
    \/ CliExitAgain

\* CliPlan is enabled exactly when the command waits for the label map
FetchPending == cli.pc = "fetch"

\* the command is run again and again and no step hangs; the fetch of the
\* label map and every removal call succeed eventually. The third conjunct
\* is SF_vars(CliPlan) with ENABLED <<CliPlan>>_vars written as FetchPending.
SpecConverge ==
    /\ InitConverge
    /\ [][NextConverge]_vars
    /\ ([]<>FetchPending => []<><<CliPlan>>_vars)
    /\ WF_vars(CliStartAgain)
    /\ WF_vars(CliFinish)
    /\ WF_vars(CliExitAgain)
    /\ SF_vars(CliRemove)

----------------------------------------------------------------------------
(* Vocabulary of the properties                                            *)

\* a plan for the snapshot `versions` under `policy` is at hand
Planned == phase \in {"planned", "replanned"}

\* keepCount is a non-negative integer, as a retention policy requires
ValidKeepCount == (~policy.keepCount.nan) /\ policy.keepCount.val >= 0

CarriesReserved(labels) ==
    AWSCURRENT \in Range(labels) \/ AWSPREVIOUS \in Range(labels)

\* the labels of the pool that are timestamp labels
Stamps == {StampA, StampB, StampC}

RemovedPairs(p) == Range(p.toRemoveLabels)

RemovedVersions(p) == {r.versionId : r \in Range(p.toRemoveLabels)}

DeletedVersions(p) == Range(p.toDeleteVersions)

PlanSize(p) == Len(p.toRemoveLabels) + Len(p.toDeleteVersions)

\* positions of the versions that carry no reserved label
Unreserved(vs) == {i \in 1..Len(vs) : ~CarriesReserved(vs[i].labels)}

\* the (version, timestamp label) pairs on versions without a reserved label
CandidatePairs(vs) ==
    UNION {{[versionId |-> vs[i].versionId, label |-> l] :
                l \in Range(vs[i].labels) \cap Stamps} : i \in Unreserved(vs)}

\* the versions without a reserved label that carry a timestamp label
TimestampedVersions(vs) ==
    {vs[i].versionId : i \in {j \in Unreserved(vs) :
                                Range(vs[j].labels) \cap Stamps # {}}}

\* every (version, timestamp label) pair of the map, reserved versions included
AllStampPairs(vs) ==
    UNION {{[versionId |-> vs[i].versionId, label |-> l] :
                l \in Range(vs[i].labels) \cap Stamps} : i \in 1..Len(vs)}

----------------------------------------------------------------------------
(* C1: reserved-label safety. A version that carries AWSCURRENT or         *)
(* AWSPREVIOUS is never in toRemoveLabels nor in toDeleteVersions, under   *)
(* every policy, also when it carries timestamp labels and keepCount = 0.  *)
C1_ReservedSafety ==
    Planned =>
        \A i \in 1..Len(versions) :
            CarriesReserved(versions[i].labels) =>
                /\ versions[i].versionId \notin RemovedVersions(plan)
                /\ versions[i].versionId \notin DeletedVersions(plan)

C1_Witness ==
    /\ Planned
    /\ policy.keepCount = Num(0)
    /\ policy.strict
    /\ plan.toRemoveLabels # <<>>
    /\ \E i \in 1..Len(versions) :
        /\ AWSPREVIOUS \in Range(versions[i].labels)
        /\ Range(versions[i].labels) \cap Stamps # {}

(* C2 as stated: after a strict plan is applied, the number of remaining   *)
(* timestamp-labeled versions without a reserved label is                  *)
(* min(keepCount, original candidate count), the candidates counted as     *)
(* labels or as versions.                                                  *)
C2_VersionCountAsStated ==
    (phase = "applied" /\ policy.strict /\ ValidKeepCount) =>
        LET remaining == Cardinality(TimestampedVersions(store))
        IN  \/ remaining = Min(policy.keepCount.val,
                               Cardinality(CandidatePairs(versions)))
            \/ remaining = Min(policy.keepCount.val,
                               Cardinality(TimestampedVersions(versions)))

(* C2 amended: after a strict plan is applied, the number of remaining     *)
(* timestamp labels on versions without a reserved label is                *)
(* min(keepCount, original number of such labels).                         *)
C2_LabelCount ==
    (phase = "applied" /\ policy.strict /\ ValidKeepCount) =>
        Cardinality(CandidatePairs(store))
            = Min(policy.keepCount.val, Cardinality(CandidatePairs(versions)))

C2_Witness ==
    /\ phase = "applied"
    /\ policy.strict
    /\ policy.keepCount = Num(1)
    /\ Cardinality(CandidatePairs(versions)) = 3
    /\ Cardinality(TimestampedVersions(versions)) = 2
    /\ Cardinality(CandidatePairs(store)) = 1

\* the moment keepDays days before the clock
DaysAgo == now - policy.keepDays.val * 86400

(* C3 as stated: with strict = false a timestamp label newer than          *)
(* now - keepDays days is never in toRemoveLabels, for every               *)
(* keepDays >= 0, keepDays = 0 included.                                   *)
C3_DaysExemptionAsStated ==
    (Planned /\ ~policy.strict /\ ValidKeepCount /\ policy.keepDays.val >= 0) =>
        \A r \in RemovedPairs(plan) : ~(parseTimestampLabel(r.label) > DaysAgo)

(* C3 amended: with strict = false and keepDays > 0 a timestamp label      *)
(* newer than now - keepDays days is never in toRemoveLabels, for every    *)
(* keepCount.                                                              *)
C3_DaysExemption ==
    (Planned /\ ~policy.strict /\ policy.keepDays.val > 0) =>
        \A r \in RemovedPairs(plan) : ~(parseTimestampLabel(r.label) > DaysAgo)

\* more timestamp labels than keepCount, all newer than the cutoff: none removed
C3_Witness ==
    /\ Planned
    /\ ~policy.strict
    /\ policy.keepDays.val > 0
    /\ policy.keepCount = Num(1)
    /\ Cardinality(CandidatePairs(versions)) = 3
    /\ \A c \in CandidatePairs(versions) : parseTimestampLabel(c.label) > DaysAgo
    /\ plan.toRemoveLabels = <<>>

(* C4 as stated: the plan computed on the map that results from applying   *)
(* a plan is empty or strictly smaller than that plan and contains no      *)
(* label it removed.                                                       *)
C4_IdempotenceAsStated ==
    (phase = "replanned" /\ ValidKeepCount) =>
        /\ PlanSize(plan) = 0 \/ PlanSize(plan) < PlanSize(prevPlan)
        /\ RemovedPairs(plan) \cap RemovedPairs(prevPlan) = {}

(* C4 amended: for keepCount >= 0 the plan computed on the map that        *)
(* results from applying a plan removes no label; it is strictly smaller   *)
(* than that plan when that plan removed a label, and equal to it (the     *)
(* zero-label versions reported again) when that plan removed none.        *)
C4_Idempotence ==
    (phase = "replanned" /\ ValidKeepCount) =>
        /\ plan.toRemoveLabels = <<>>
        /\ prevPlan.toRemoveLabels # <<>> => PlanSize(plan) < PlanSize(prevPlan)
        /\ prevPlan.toRemoveLabels = <<>> => plan = prevPlan

C4_Witness ==
    /\ phase = "replanned"
    /\ ValidKeepCount
    /\ Len(prevPlan.toRemoveLabels) = 2
    /\ plan.toDeleteVersions # <<>>

(* C5: foreign label isolation. A label that is neither a timestamp label  *)
(* nor a reserved label is never in toRemoveLabels, and a version whose    *)
(* only labels are foreign is in neither toRemoveLabels nor                *)
(* toDeleteVersions.                                                       *)
C5_ForeignIsolation ==
    Planned =>
        /\ \A r \in RemovedPairs(plan) : r.label \in Stamps
        /\ \A i \in 1..Len(versions) :
            (versions[i].labels # <<>> /\ Range(versions[i].labels) \subseteq ForeignLabels)
                => /\ versions[i].versionId \notin RemovedVersions(plan)
                   /\ versions[i].versionId \notin DeletedVersions(plan)

C5_Witness ==
    /\ Planned
    /\ policy.keepCount = Num(0)
    /\ policy.strict
    /\ plan.toRemoveLabels # <<>>
    /\ \E i \in 1..Len(versions) : versions[i].labels = <<Malformed>>
    /\ \E i \in 1..Len(versions) :
        /\ ManualBackup \notin Range(versions[i].labels)
        /\ StampA \in Range(versions[i].labels)
        /\ versions[i].versionId \in DeletedVersions(plan)

(* C6 as stated: with keepCount = 0 and strict = true toRemoveLabels       *)
(* contains every timestamp label present anywhere in the label map, and   *)
(* none remains on any version once the plan is applied.                   *)
C6_RemovesAllAsStated ==
    /\ (Planned /\ policy.keepCount = Num(0) /\ policy.strict) =>
            AllStampPairs(versions) \subseteq RemovedPairs(plan)
    /\ (phase = "applied" /\ policy.keepCount = Num(0) /\ policy.strict) =>
            AllStampPairs(store) = {}

(* C6 amended: with keepCount = 0 and strict = true toRemoveLabels         *)
(* contains every timestamp label on the versions that carry no reserved   *)
(* label, and none remains on those versions once the plan is applied.     *)
C6_RemovesAllUnreserved ==
    /\ (Planned /\ policy.keepCount = Num(0) /\ policy.strict) =>
            RemovedPairs(plan) = CandidatePairs(versions)
    /\ (phase = "applied" /\ policy.keepCount = Num(0) /\ policy.strict) =>
            CandidatePairs(store) = {}

C6_Witness ==
    /\ phase = "applied"
    /\ policy.keepCount = Num(0)
    /\ policy.strict
    /\ Cardinality(CandidatePairs(versions)) = 3
    /\ Cardinality(TimestampedVersions(versions)) = 2
    /\ CandidatePairs(store) = {}

(* C8: in strict mode or with keepDays = 0 the plan removes exactly        *)
(* max(0, T - keepCount) labels, T the number of timestamp labels on       *)
(* versions without a reserved label, and every removed label is at most   *)
(* as new as every retained one.                                           *)
C8_RemovesOldest ==
    (Planned /\ ValidKeepCount /\ (policy.strict \/ policy.keepDays = Num(0))) =>
        /\ Len(plan.toRemoveLabels)
             = Max(0, Cardinality(CandidatePairs(versions)) - policy.keepCount.val)
        /\ Cardinality(RemovedPairs(plan)) = Len(plan.toRemoveLabels)
        /\ RemovedPairs(plan) \subseteq CandidatePairs(versions)
        /\ \A r \in RemovedPairs(plan) :
             \A k \in CandidatePairs(versions) \ RemovedPairs(plan) :
                parseTimestampLabel(r.label) <= parseTimestampLabel(k.label)

C8_Witness ==
    /\ Planned
    /\ policy.strict
    /\ policy.keepCount = Num(1)
    /\ Len(plan.toRemoveLabels) = 2
    /\ \E k \in CandidatePairs(versions) \ RemovedPairs(plan) : k.label = StampB

(* C9: a version with zero labels is in toDeleteVersions on every planning *)
(* call, under every policy, and again on the calls that follow.           *)
C9_UnlabeledAlwaysReported ==
    Planned =>
        \A i \in 1..Len(versions) :
            versions[i].labels = <<>> =>
                versions[i].versionId \in DeletedVersions(plan)

C9_Witness ==
    /\ phase = "replanned"
    /\ \E i \in 1..Len(versions) :
        /\ versions[i].labels = <<>>
        /\ versions[i].versionId \in DeletedVersions(plan)
        /\ versions[i].versionId \in DeletedVersions(prevPlan)
        /\ prevPlan.toRemoveLabels = <<>>

----------------------------------------------------------------------------
\* --keep was given and its value is negative or not a number
InvalidKeepCount ==
    cli.options.hasKeep
        /\ (cli.options.keepCount.nan \/ cli.options.keepCount.val < 0)

(* C7 as stated: a cleanup run whose keepCount is negative or not a number *)
(* is rejected before planning: no label map is planned on and no removal  *)
(* call is issued.                                                         *)
C7_InvalidKeepRejected ==
    (cli.pc # "idle" /\ InvalidKeepCount) =>
        /\ versions = <<>>
        /\ cli.pc \in {"fetch", "exit1"}
        /\ calls = <<>>

\* the value GetSecretValue returns, as an object
CurrentValues == JsonParse(CurrentSecretString(store, secretStrings))

(* C10: updateSecretValue preserves unrelated keys. When the call has      *)
(* returned, the current secret value holds key = value and every other    *)
(* member the current value had when the call started; the members the     *)
(* secret started with under keys no update writes are there after any     *)
(* sequence of updates.                                                    *)
C10_PreservesUnrelatedKeys ==
    /\ \A u \in DOMAIN upd :
        upd[u].pc = "done" =>
            /\ GetProperty(CurrentValues, upd[u].key) = upd[u].value
            /\ \A m \in Range(upd[u].startValues) :
                m.key # upd[u].key => GetProperty(CurrentValues, m.key) = m.value
    /\ \A m \in Range(JsonParse(secretStrings[1])) :
        m.key \notin Keys => GetProperty(CurrentValues, m.key) = m.value

C10_Witness ==
    /\ upd[1].pc = "done"
    /\ upd[1].key = "JWT_PUB"
    /\ Len(upd[1].startValues) = 3
    /\ GetProperty(upd[1].startValues, "JWT_PRIV") # Undefined
    /\ GetProperty(upd[1].startValues, "JWT_PUB") # upd[1].value
    /\ GetProperty(CurrentValues, "MAIN_GOOGLE_WEB_CLIENT_SECRET") = <<"g", 0>>

----------------------------------------------------------------------------
\* the (version, label) pair a removal call was issued for
TargetOf(call) == [versionId |-> call.versionId, label |-> call.label]

\* the removal calls issued so far are the first entries of toRemoveLabels,
\* in order, one call each
CallsFollowPlan ==
    /\ Len(calls) <= Len(plan.toRemoveLabels)
    /\ \A k \in 1..Len(calls) : TargetOf(calls[k]) = plan.toRemoveLabels[k]

(* C11: best-effort execution. While cleanupVersions executes a plan, the  *)
(* removal calls issued are the entries of toRemoveLabels in order,        *)
(* whether or not earlier calls failed, and the removal loop is left only  *)
(* when a call has been attempted for every entry.                         *)
C11_BestEffort ==
    [][/\ cli'.pc = "exec" =>
            CallsFollowPlan' /\ Len(calls') = cli'.i - 1
       /\ (cli.pc = "exec" /\ cli'.pc # "exec") =>
            CallsFollowPlan' /\ Len(calls') = Len(plan'.toRemoveLabels)]_vars

C11_Witness ==
    /\ cli.pc = "done"
    /\ Len(plan.toRemoveLabels) >= 2
    /\ Len(calls) = Len(plan.toRemoveLabels)
    /\ ~calls[1].ok
    /\ calls[2].ok

\* a removal call of the run has failed
SomeCallFailed == \E k \in 1..Len(calls) : ~calls[k].ok

(* C12 as stated: a run in which a label removal failed is not reported as *)
(* an overall success: "Cleanup completed successfully!" is not printed    *)
(* for it.                                                                 *)
C12_FailedRunNotSuccess == SomeCallFailed => ~cli.completed

(* C13: dry run. From the moment cleanupVersions runs with dryRun = true,  *)
(* with or without force, no step of the run issues a removal call,        *)
(* changes the store, or asks for confirmation.                            *)
C13_DryRunFrame ==
    [][cli'.options.dryRun =>
            /\ store' = store
            /\ calls' = <<>>
            /\ cli'.pc \notin {"confirm", "exec"}]_vars

C13_Witness ==
    /\ cli.pc = "done"
    /\ cli.options.dryRun
    /\ cli.options.force
    /\ Len(plan.toRemoveLabels) >= 2
    /\ versions = store

\* the cleanup command is past the fetch of the label map and got none
FetchFailed == cli.pc \notin {"idle", "fetch"} /\ versions = <<>>

(* C14: if fetching the label map fails, cleanup fails as a whole. The     *)
(* command is then in the error state (exit code 1) with no plan computed  *)
(* and no removal call issued, and the store is as it was.                 *)
C14_FetchFailureIsFatal ==
    [][FetchFailed' =>
            /\ cli'.pc = "exit1"
            /\ ~cli'.completed
            /\ plan' = NoPlan
            /\ calls' = <<>>
            /\ store' = store]_vars

C14_Witness ==
    /\ FetchFailed
    /\ cli.pc = "exit1"
    /\ cli.options.force
    /\ identifyVersionsToCleanup(store, KeepCountOf(cli.options),
            KeepDaysOf(cli.options), cli.options.strict, now).toRemoveLabels # <<>>

\* the labels toRemoveLabels lists for a version
PlannedRemovals(versionId) ==
    {r.label : r \in {q \in RemovedPairs(plan) : q.versionId = versionId}}

\* a cleanup run has fetched the label map `versions` and has not ended
RunWithMap == cli.pc \notin {"idle", "fetch"} /\ versions # <<>>

(* C15: a cleanup run changes the store only by detaching pairs listed in  *)
(* toRemoveLabels. Against the label map the run fetched, at every point   *)
(* of the run: the versions are the same, no version has a label it did    *)
(* not have (none added, none moved), every detached label is listed for   *)
(* its version in toRemoveLabels, the versions holding AWSCURRENT and      *)
(* AWSPREVIOUS have all their labels, and every label that is not a        *)
(* timestamp label is where it was.                                        *)
C15_OnlyListedPairsDetached ==
    RunWithMap =>
        /\ Len(store) = Len(versions)
        /\ \A i \in 1..Len(versions) :
            /\ store[i].versionId = versions[i].versionId
            /\ Range(store[i].labels) \subseteq Range(versions[i].labels)
            /\ Range(versions[i].labels) \ Range(store[i].labels)
                    \subseteq PlannedRemovals(versions[i].versionId)
            /\ CarriesReserved(versions[i].labels) =>
                    store[i].labels = versions[i].labels
            /\ \A l \in Range(versions[i].labels) :
                    ~isTimestampLabel(l) => l \in Range(store[i].labels)

C15_Witness ==
    /\ cli.pc = "done"
    /\ cli.completed
    /\ \E k \in 1..Len(calls) : calls[k].ok
    /\ \E i \in 1..Len(versions) :
        /\ ManualBackup \in Range(store[i].labels)
        /\ PlannedRemovals(versions[i].versionId) # {}
        /\ store[i].labels # versions[i].labels
    /\ \E i \in 1..Len(versions) :
        /\ AWSPREVIOUS \in Range(store[i].labels)
        /\ \E l \in Range(store[i].labels) : isTimestampLabel(l)

----------------------------------------------------------------------------
(* C16: for a well-formed label map (each label on at most one version,    *)
(* each version's labels a set) no (version, label) pair is listed twice   *)
(* in toRemoveLabels, under every policy.                                  *)
C16_NoDuplicatePairs ==
    Planned =>
        \A i, j \in 1..Len(plan.toRemoveLabels) :
            i # j => plan.toRemoveLabels[i] # plan.toRemoveLabels[j]

C16_Witness ==
    /\ Planned
    /\ Len(plan.toRemoveLabels) = 3
    /\ plan.toRemoveLabels[1].versionId = plan.toRemoveLabels[2].versionId
    /\ plan.toRemoveLabels[1].label # plan.toRemoveLabels[2].label
    /\ parseTimestampLabel(plan.toRemoveLabels[2].label)
            = parseTimestampLabel(plan.toRemoveLabels[3].label)

----------------------------------------------------------------------------
\* the secret carries AWSCURRENT, AWSPREVIOUS and timestamp labels only
OnlyRotationLabels(st) ==
    \A i \in 1..Len(st) :
        \A l \in Range(st[i].labels) :
            Includes(AWS_REQUIRED_LABELS, l) \/ isTimestampLabel(l)

(* C17 as stated: after a strict cleanup with keepCount = N in which every *)
(* removal call succeeded, a secret that carries only AWSCURRENT,          *)
(* AWSPREVIOUS and timestamp labels has at most N + 2 labels.              *)
C17_EmergencyOutcome ==
    (/\ cli.pc = "done"
     /\ cli.completed
     /\ policy.strict
     /\ ValidKeepCount
     /\ ~SomeCallFailed
     /\ OnlyRotationLabels(store)) =>
        TotalLabels(store) <= policy.keepCount.val + 2

----------------------------------------------------------------------------
\* the labels version i of the fetched map carries once every entry of
\* toRemoveLabels has been detached
LabelsAfterPlan(i) == RemoveAll(versions, plan.toRemoveLabels)[i].labels

(* C18 as stated: a version without a reserved label is in                 *)
(* toDeleteVersions if and only if it carries no label once every entry of *)
(* toRemoveLabels has been applied.                                        *)
C18_DeletedIffUnlabeled ==
    Planned =>
        \A i \in Unreserved(versions) :
            versions[i].versionId \in DeletedVersions(plan)
                <=> LabelsAfterPlan(i) = <<>>

(* C19: a version reported in toDeleteVersions carries no label once the   *)
(* plan is applied; a version of which only some timestamp labels are      *)
(* removed, or that has a foreign label besides the removed one, is not    *)
(* reported.                                                               *)
C19_DeletedAreUnlabeled ==
    Planned =>
        \A i \in 1..Len(versions) :
            versions[i].versionId \in DeletedVersions(plan)
                => LabelsAfterPlan(i) = <<>>

C19_Witness ==
    /\ Planned
    /\ DeletedVersions(plan) = {}
    /\ \E i \in 1..Len(versions) :
        /\ versions[i].labels = <<StampA, StampB>>
        /\ LabelsAfterPlan(i) = <<StampB>>
    /\ \E i \in 1..Len(versions) :
        /\ StampC \in Range(versions[i].labels)
        /\ Len(versions[i].labels) = 2
        /\ LabelsAfterPlan(i) \in {<<ManualBackup>>, <<Malformed>>}

\* a clock two days before the one the plan was computed under
EarlierClock == now - 2 * SecondsPerDay

(* C20: strict mode ignores the days filter. The plan computed with        *)
(* strict = true is also the plan computed under another clock value with  *)
(* strict = true and any keepDays value, and with strict = false and       *)
(* keepDays = 0.                                                           *)
C20_StrictIgnoresDays ==
    (phase = "planned" /\ policy.strict) =>
        /\ \A kd \in KeepDays :
             identifyVersionsToCleanup(versions, policy.keepCount, kd, TRUE,
                                       EarlierClock) = plan
        /\ identifyVersionsToCleanup(versions, policy.keepCount, Num(0), FALSE,
                                     EarlierClock) = plan

C20_Witness ==
    /\ Planned
    /\ policy.strict
    /\ policy.keepDays = Num(MaxDays)
    /\ policy.keepCount = Num(1)
    /\ Len(plan.toRemoveLabels) = 2
    /\ identifyVersionsToCleanup(versions, policy.keepCount, policy.keepDays,
                                 FALSE, now).toRemoveLabels = <<>>

----------------------------------------------------------------------------
(* C21: confirmation gating. Without force and without dryRun a removal    *)
(* call is issued only after the user has answered yes; once the user has  *)
(* declined, the run ends with no removal call issued and the store as it  *)
(* was. With force no confirmation step takes place.                       *)
C21_ConfirmationGating ==
    [][/\ (Len(calls') > Len(calls) /\ ~cli.options.force) =>
            cli.confirmed = "yes"
       /\ cli'.confirmed = "no" =>
            /\ cli'.pc = "done"
            /\ calls' = <<>>
            /\ store' = store
       /\ cli'.options.force =>
            /\ cli'.pc # "confirm"
            /\ cli'.confirmed = "unasked"]_vars

C21_Witness ==
    /\ cli.pc = "done"
    /\ cli.confirmed = "no"
    /\ ~cli.options.force
    /\ plan.toRemoveLabels # <<>>
    /\ store = versions

----------------------------------------------------------------------------
\* the pair is attached in the label map vs
StillAttached(vs, pair) ==
    \E i \in 1..Len(vs) :
        vs[i].versionId = pair.versionId /\ pair.label \in Range(vs[i].labels)

(* C22: partial cleanup is re-plannable. After a removal loop in which     *)
(* only some entries of toRemoveLabels were applied, the plan computed     *)
(* again under the same policy and clock lists exactly the entries that    *)
(* were not applied, in the same order, and so none of the labels the      *)
(* first plan retained.                                                    *)
C22_PartialReplan ==
    (phase = "replanned" /\ ValidKeepCount) =>
        plan.toRemoveLabels
            = SelectSeq(prevPlan.toRemoveLabels, LAMBDA r : StillAttached(versions, r))

C22_Witness ==
    /\ phase = "replanned"
    /\ ValidKeepCount
    /\ policy.keepCount.val >= 1
    /\ Len(prevPlan.toRemoveLabels) = 2
    /\ plan.toRemoveLabels = <<prevPlan.toRemoveLabels[1]>>
    /\ AllStampPairs(versions) \ RemovedPairs(plan) # {}

----------------------------------------------------------------------------
\* at most keepCount timestamp labels are left on the versions without a
\* reserved label
WithinKeepCount == Cardinality(CandidatePairs(store)) <= policy.keepCount.val

(* C23: convergence. Strict cleanup with a fixed keepCount, run again and  *)
(* again with no rotation in between and with every removal call           *)
(* succeeding eventually, reaches a point from which on at most keepCount  *)
(* timestamp labels are on the versions without a reserved label, every    *)
(* plan has an empty toRemoveLabels and no removal call is issued.         *)
C23_Convergence ==
    <>[](WithinKeepCount /\ plan.toRemoveLabels = <<>> /\ calls = <<>>)

C23_Witness ==
    /\ cli.pc = "done"
    /\ policy.keepCount.val >= 1
    /\ Cardinality(CandidatePairs(store)) = policy.keepCount.val
    /\ plan.toRemoveLabels = <<>>
    /\ calls = <<>>
    /\ Len(prevPlan.toRemoveLabels) = 1
    /\ versions = store

----------------------------------------------------------------------------
\* the id of the version that carries label, 0 when none does
VersionIdWith(st, label) ==
    IF VersionWith(st, label) = 0 THEN 0 ELSE st[VersionWith(st, label)].versionId

\* the version that carries AWSPREVIOUS carries a timestamp label too
PreviousIsStamped(st) ==
    \E l \in Range(st[VersionWith(st, AWSPREVIOUS)].labels) : isTimestampLabel(l)

(* C24: a failure to attach the timestamp label does not fail              *)
(* updateSecretValue. When the label step is reached the value written is  *)
(* the AWSCURRENT version; the step ends in the normal return, never in    *)
(* the error, it leaves the secret values and AWSCURRENT where they are,   *)
(* and the label map is either unchanged or has the one timestamp label    *)
(* added to the AWSPREVIOUS version.                                       *)
C24_LabelFailureTolerated ==
    [][\A u \in DOMAIN upd :
        upd[u].pc = "label" =>
            /\ VersionIdWith(store, AWSCURRENT) = upd[u].versionId
            /\ JsonParse(CurrentSecretString(store, secretStrings))
                    = upd[u].currentValues
            /\ upd'[u].pc \in {"label", "done"}
            /\ secretStrings' = secretStrings
            /\ \/ store' = store
               \/ store' = AttachLabel(store, generateTimestampLabel(now),
                                       VersionIdWith(store, AWSPREVIOUS))]_vars

C24_Witness ==
    /\ upd[1].pc = "done"
    /\ TotalLabels(store) = MaxStagingLabels
    /\ VersionIdWith(store, AWSCURRENT) = upd[1].versionId
    /\ VersionWith(store, AWSPREVIOUS) # 0
    /\ ~PreviousIsStamped(store)
    /\ GetProperty(CurrentValues, upd[1].key) = upd[1].value

----------------------------------------------------------------------------
\* the plan of the same label map, keepCount, keepDays and clock in strict mode
StrictPlan ==
    identifyVersionsToCleanup(versions, policy.keepCount, policy.keepDays, TRUE, now)

\* the candidate pairs other than r whose label is at least as new as r's
AtLeastAsNew(r) ==
    {k \in CandidatePairs(versions) \ {r} :
        parseTimestampLabel(k.label) >= parseTimestampLabel(r.label)}

(* C25: the lenient plan is contained in the strict plan. toRemoveLabels   *)
(* computed with strict = false is a subset of toRemoveLabels computed     *)
(* with strict = true for the same label map, keepCount, keepDays and      *)
(* clock; for a non-negative keepCount every label in either has at least  *)
(* keepCount other labels at least as new on versions without a reserved   *)
(* label, so the keepCount newest are in neither.                          *)
C25_LenientWithinStrict ==
    (phase = "planned" /\ ~policy.strict) =>
        /\ RemovedPairs(plan) \subseteq RemovedPairs(StrictPlan)
        /\ ValidKeepCount =>
                \A r \in RemovedPairs(StrictPlan) :
                    Cardinality(AtLeastAsNew(r)) >= policy.keepCount.val

C25_Witness ==
    /\ phase = "planned"
    /\ ~policy.strict
    /\ policy.keepCount = Num(1)
    /\ policy.keepDays = Num(1)
    /\ Cardinality(CandidatePairs(versions)) = 3
    /\ Len(plan.toRemoveLabels) = 2
    /\ RemovedPairs(plan) = RemovedPairs(StrictPlan)

----------------------------------------------------------------------------
\* the label of the clock is attached to a version other than AWSPREVIOUS
LabelTakenElsewhere(st) ==
    VersionWith(st, generateTimestampLabel(now)) \notin {0, VersionWith(st, AWSPREVIOUS)}

(* C26: whenever updateSecretValue has returned successfully on a secret   *)
(* that already had a value, the version that holds AWSPREVIOUS also       *)
(* carries a timestamp label.                                              *)
C26_PreviousAlwaysStamped ==
    \A u \in DOMAIN upd :
        (/\ upd[u].pc = "done"
         /\ upd[u].startValues # <<>>
         /\ VersionWith(store, AWSPREVIOUS) # 0) =>
            PreviousIsStamped(store)

----------------------------------------------------------------------------
(* Two callers of updateSecretValue on one secret, one per key, their      *)
(* awaited steps interleaved                                               *)

\* the key each caller updates
CallerKey == <<"JWT_PRIV", "JWT_PUB">>

InitRace ==
    /\ \E labels \in InitialLabels : store = <<[versionId |-> 1, labels |-> labels]>>
    /\ \E text \in InitialSecrets : secretStrings = <<text>>
    /\ now = StartOfRun
    /\ versions = <<>>
    /\ phase = "race"
    /\ policy = DefaultPolicy
    /\ plan = NoPlan
    /\ prevPlan = NoPlan
    /\ upd = <<IdleUpdate, IdleUpdate>>
    /\ cli = IdleCli
    /\ calls = <<>>

\* caller u invokes updateSecretValue(secretName, CallerKey[u], value)
BeginOwnKey(u) == BeginUpdate(u) /\ upd'[u].key = CallerKey[u]

NextRace ==
    \/ \E u \in DOMAIN upd : BeginOwnKey(u)
    \/ \E u \in DOMAIN upd : ReadValues(u)
    \/ \E u \in DOMAIN upd : ReadFails(u)
    \/ \E u \in DOMAIN upd : PutValues(u)
    \/ \E u \in DOMAIN upd : PutFails(u)
    \/ \E u \in DOMAIN upd : LabelPrevious(u)
    \/ \E u \in DOMAIN upd : LabelFails(u)
    \/ \E u \in DOMAIN upd : UpdateReturns(u)
    \/ Tick

SpecRace == InitRace /\ [][NextRace]_vars

(* C27: two updateSecretValue operations on the same secret for different  *)
(* keys, their steps interleaved, both take effect: once both have         *)
(* returned successfully the stored value holds the value written by each. *)
C27_BothTakeEffect ==
    (upd[1].pc = "done" /\ upd[2].pc = "done") =>
        /\ GetProperty(CurrentValues, upd[1].key) = upd[1].value
        /\ GetProperty(CurrentValues, upd[2].key) = upd[2].value

----------------------------------------------------------------------------
(* generateJWTKeys: one key pair is generated, then JWT_PRIV and JWT_PUB   *)
(* are written by two calls of updateSecretValue                           *)

\* the halves of the n-th generated key pair
PrivateKey(n) == <<"priv", n>>

PublicKey(n) == <<"pub", n>>

\* a secret that holds the key pair of an earlier run
InitialJwtSecrets ==
    { <<[key |-> "JWT_PRIV", value |-> PrivateKey(0)],
        [key |-> "JWT_PUB", value |-> PublicKey(0)]>>,
      <<[key |-> "MAIN_GOOGLE_WEB_CLIENT_SECRET", value |-> <<"g", 0>>],
        [key |-> "JWT_PRIV", value |-> PrivateKey(0)],
        [key |-> "JWT_PUB", value |-> PublicKey(0)]>> }

InitJwt ==
    /\ \E labels \in InitialLabels : store = <<[versionId |-> 1, labels |-> labels]>>
    /\ \E text \in InitialJwtSecrets : secretStrings = <<text>>
    /\ now = StartOfRun
    /\ versions = <<>>
    /\ phase = "jwt_idle"
    /\ policy = DefaultPolicy
    /\ plan = NoPlan
    /\ prevPlan = NoPlan
    /\ upd = <<IdleUpdate>>
    /\ cli = IdleCli
    /\ calls = <<>>

\* await updateSecretValue(secretName, 'JWT_PRIV', encryptedPrivateKey)
JwtUpdatePriv ==
    /\ phase = "jwt_idle"
    /\ Len(store) < MaxRotations
    /\ phase' = "jwt_priv"
    /\ upd' = [upd EXCEPT ![1] =
                [IdleUpdate EXCEPT !.pc = "read", !.key = "JWT_PRIV",
                    !.value = PrivateKey(Len(store)),
                    !.startValues = JsonParse(CurrentSecretString(store, secretStrings))]]
    /\ UNCHANGED <<store, now, versions, policy, plan, prevPlan, secretStrings, cli, calls>>

\* the first call has returned:
\* await updateSecretValue(secretName, 'JWT_PUB', publicKeyBase64)
JwtUpdatePub ==
    /\ phase = "jwt_priv"
    /\ upd[1].pc = "done"
    /\ phase' = "jwt_pub"
    /\ upd' = [upd EXCEPT ![1] =
                [IdleUpdate EXCEPT !.pc = "read", !.key = "JWT_PUB",
                    !.value = PublicKey(upd[1].value[2]),
                    !.startValues = JsonParse(CurrentSecretString(store, secretStrings))]]
    /\ UNCHANGED <<store, now, versions, policy, plan, prevPlan, secretStrings, cli, calls>>

\* the second call has returned: the keys are printed and the run ends
JwtCompletes ==
    /\ phase = "jwt_pub"
    /\ upd[1].pc = "done"
    /\ phase' = "jwt_idle"
    /\ upd' = [upd EXCEPT ![1] = IdleUpdate]
    /\ UNCHANGED <<store, now, versions, policy, plan, prevPlan, secretStrings, cli, calls>>

\* either call throws: the catch prints the error and the process exits
JwtFails ==
    /\ phase \in {"jwt_priv", "jwt_pub"}
    /\ upd[1].pc = "failed"
    /\ phase' = "jwt_idle"
    /\ upd' = [upd EXCEPT ![1] = IdleUpdate]
    /\ UNCHANGED <<store, now, versions, policy, plan, prevPlan, secretStrings, cli, calls>>

NextJwt ==
    \/ JwtUpdatePriv
    \/ JwtUpdatePub
    \/ JwtCompletes
    \/ JwtFails
    \/ ReadValues(1)
    \/ ReadFails(1)
    \/ PutValues(1)
    \/ PutFails(1)
    \/ LabelPrevious(1)
    \/ LabelFails(1)
    \/ Tick

SpecJwt == InitJwt /\ [][NextJwt]_vars

(* C28: in every state of the JWT key rotation the JWT_PRIV and JWT_PUB of *)
(* the current secret value belong to the same generated key pair.         *)
C28_KeyPairConsistent ==
    GetProperty(CurrentValues, "JWT_PRIV")[2] = GetProperty(CurrentValues, "JWT_PUB")[2]

----------------------------------------------------------------------------
(* A cleanup run and updateSecretValue calls on one secret, their awaited  *)
(* steps interleaved                                                       *)

\* the secret has AWSCURRENT and AWSPREVIOUS on its first two versions, the
\* timestamp labels anywhere, and one value in every version
InitInterleave ==
    /\ store \in {LabelMapOf(f, LabelPool(ManualBackup)) :
                    f \in {g \in Attachments : g[2] = 2 /\ g[6] = 0}}
    /\ secretStrings =
            [v \in 1..MaxVersions |->
                <<[key |-> "JWT_PUB", value |-> <<"p", 0>>]>>]
    /\ now = StartOfRun
    /\ versions = <<>>
    /\ phase = "interleave"
    /\ policy = DefaultPolicy
    /\ plan = NoPlan
    /\ prevPlan = NoPlan
    /\ upd = <<IdleUpdate>>
    /\ cli = IdleCli
    /\ calls = <<>>

NextInterleave ==
    \/ BeginUpdate(1)
    \/ ReadValues(1)
    \/ ReadFails(1)
    \/ PutValues(1)
    \/ PutFails(1)
    \/ LabelPrevious(1)
    \/ LabelFails(1)
    \/ UpdateReturns(1)
    \/ CliStart
    \/ CliPlan
    \/ CliFetchFails
    \/ CliConfirm
    \/ CliRemove
    \/ CliRemoveFails
    \/ CliFinish
    \/ CliExit

SpecInterleave == InitInterleave /\ [][NextInterleave]_vars

\* the labels versionId carries in st
LabelsOf(st, versionId) ==
    (CHOOSE e \in Range(st) : e.versionId = versionId).labels

\* the removal call issued by the step
NewCall == calls'[Len(calls')]

(* C29: a removal call of a cleanup never targets a version that holds     *)
(* AWSCURRENT or AWSPREVIOUS at the moment the call is applied, also when  *)
(* a rotation has taken place since the cleanup read the label map; the    *)
(* call leaves both labels on the versions that hold them.                 *)
C29_RemovalsSpareReserved ==
    [][Len(calls') > Len(calls) =>
        /\ ~CarriesReserved(LabelsOf(store, NewCall.versionId))
        /\ VersionIdWith(store', AWSCURRENT) = VersionIdWith(store, AWSCURRENT)
        /\ VersionIdWith(store', AWSPREVIOUS) = VersionIdWith(store, AWSPREVIOUS)]_vars

\* every call of a plan of two has been applied, and the version that held
\* AWSCURRENT when the label map was read holds AWSPREVIOUS now
C29_Witness ==
    /\ cli.pc = "exec"
    /\ Len(plan.toRemoveLabels) = 2
    /\ Len(calls) = 2
    /\ \A k \in 1..Len(calls) : calls[k].ok
    /\ Len(store) > Len(versions)
    /\ VersionIdWith(store, AWSPREVIOUS) = VersionIdWith(versions, AWSCURRENT)
    /\ VersionIdWith(store, AWSCURRENT) = Len(store)

----------------------------------------------------------------------------
\* the value of the version written by the step
WrittenValues == JsonParse(secretStrings'[Len(secretStrings')])

(* C30: a failed read fails updateSecretValue before anything is written.  *)
(* The read step changes neither the label map nor the stored values, and  *)
(* it leads to the write only with the values the store holds; once        *)
(* updateSecretValue has failed it issues no write and no label call; and  *)
(* whenever a value is written it has every key of the value it replaces.  *)
C30_FailedReadWritesNothing ==
    [][\A u \in DOMAIN upd :
        /\ upd[u].pc = "read" =>
                /\ store' = store
                /\ secretStrings' = secretStrings
                /\ upd'[u].pc \in {"read", "put", "failed"}
                /\ upd'[u].pc = "put" => upd'[u].currentValues = CurrentValues
        /\ upd[u].pc = "failed" =>
                /\ store' = store
                /\ secretStrings' = secretStrings
                /\ upd'[u].pc \in {"failed", "idle"}
        /\ secretStrings' # secretStrings =>
                KeysOf(CurrentValues) \subseteq KeysOf(WrittenValues)]_vars

\* the read of a secret with two keys has failed: nothing was written
C30_Witness ==
    /\ upd[1].pc = "failed"
    /\ upd[1].currentValues = <<>>
    /\ upd[1].versionId = 0
    /\ Len(upd[1].startValues) >= 2
    /\ CurrentValues = upd[1].startValues
    /\ Len(store) = 1

====
